---------------------------- MODULE Spec2Model ----------------------------
(***************************************************************************)
(* A model of the vpn:// configuration codec of src/src/main.rs: encode,   *)
(* decode with its modern (header + zlib) and legacy (plain JSON) paths,   *)
(* the header helpers, the base64 helpers and detect_input_type.           *)
(*                                                                         *)
(* Representation.                                                         *)
(*   - A byte buffer (Vec<u8>, &[u8], String, &str) is a sequence of       *)
(*     cells.  A cell c < 256 is the byte c.  A cell c >= 256 stands for a *)
(*     run of the byte c % 256 that is 2^32 - 4 + (c \div 256) bytes long: *)
(*     it lets a document be longer than a u32 can count without listing   *)
(*     its bytes.  Only the uncompressed text ever holds run cells.        *)
(*   - TLC's integers are 32-bit signed, so a length (usize) and a u32 are *)
(*     records [hi, lo] in base 2^16: the value is hi * 2^16 + lo.  A u32  *)
(*     has hi < 2^16; a usize may have more.                               *)
(*   - A Result is [ok |-> TRUE, v |-> value] or [ok |-> FALSE, err |-> e].*)
(***************************************************************************)
EXTENDS Integers, Sequences, FiniteSets, TLC

-----------------------------------------------------------------------------
(* Bounds of the input universes.                                          *)

\* run cells used in documents: lengths 2^32 - 3 .. 2^32 - 4 + MaxRun
MaxRun == 3
\* longest array and largest object among the generated documents
MaxElems == 2
\* deepest nesting of the generated wrapper documents
MaxDepth == 2
\* longest undecodable-as-modern short body
MaxShort == 3

-----------------------------------------------------------------------------
(* Lengths and 32-bit integers.                                            *)

IsRun(c) == c >= 256
RunByte(c) == c % 256
Run(b, k) == b + 256 * k

SizeOf(n) == [hi |-> n \div 65536, lo |-> n % 65536]

SizeAdd(a, b) ==
  [hi |-> a.hi + b.hi + ((a.lo + b.lo) \div 65536), lo |-> (a.lo + b.lo) % 65536]

\* the number of bytes a cell stands for
CellSize(c) ==
  IF IsRun(c) THEN SizeAdd([hi |-> 65535, lo |-> 65532], SizeOf(c \div 256))
  ELSE SizeOf(1)

\* the bytes of buf[lo..hi], halving the range (TLC's stack is shallow)
RECURSIVE LenRange(_, _, _)
LenRange(buf, lo, hi) ==
  IF lo > hi THEN SizeOf(0)
  ELSE IF lo = hi THEN CellSize(buf[lo])
  ELSE LET mid == (lo + hi) \div 2
       IN  SizeAdd(LenRange(buf, lo, mid), LenRange(buf, mid + 1, hi))

\* slice::len(): the byte length of a buffer, a usize
len(buf) == LenRange(buf, 1, Len(buf))

\* the least element of a set of integers
Min(S) == CHOOSE x \in S : \A y \in S : x <= y

\* the concatenation of parts[lo..hi], halving the range
RECURSIVE ConcatRange(_, _, _)
ConcatRange(parts, lo, hi) ==
  IF lo > hi THEN << >>
  ELSE IF lo = hi THEN parts[lo]
  ELSE LET mid == (lo + hi) \div 2
       IN  ConcatRange(parts, lo, mid) \o ConcatRange(parts, mid + 1, hi)

Concat(parts) == ConcatRange(parts, 1, Len(parts))

\* `x as u32` of a usize: the low 32 bits
as_u32(n) == [hi |-> n.hi % 65536, lo |-> n.lo]

\* `x as usize` of a u32: zero extension
as_usize(n) == [hi |-> n.hi, lo |-> n.lo]

SizeLess(a, b) == a.hi < b.hi \/ (a.hi = b.hi /\ a.lo < b.lo)

\* u32::MAX as a length
U32Max == [hi |-> 65535, lo |-> 65535]

-----------------------------------------------------------------------------
(* The header helpers.                                                     *)

create_header_le(length) ==
  << length.lo % 256, length.lo \div 256, length.hi % 256, length.hi \div 256 >>

\* u32::to_be_bytes
create_header(length) ==
  << length.hi \div 256, length.hi % 256, length.lo \div 256, length.lo % 256 >>

\* u32::from_be_bytes of header[0..4]
read_header(hdr) ==
  [hi |-> hdr[1] * 256 + hdr[2], lo |-> hdr[3] * 256 + hdr[4]]

-----------------------------------------------------------------------------
(* Base64, URL-safe alphabet, no padding (base64::URL_SAFE_NO_PAD).        *)

\* the character of a 6-bit value: A-Z a-z 0-9 - _
B64Char(v) ==
  IF v < 26 THEN 65 + v
  ELSE IF v < 52 THEN 97 + (v - 26)
  ELSE IF v < 62 THEN 48 + (v - 52)
  ELSE IF v = 62 THEN 45
  ELSE 95

\* the 6-bit value of a character, -1 for a character outside the alphabet
B64Value(c) ==
  IF c >= 65 /\ c <= 90 THEN c - 65
  ELSE IF c >= 97 /\ c <= 122 THEN c - 97 + 26
  ELSE IF c >= 48 /\ c <= 57 THEN c - 48 + 52
  ELSE IF c = 45 THEN 62
  ELSE IF c = 95 THEN 63
  ELSE -1

\* data[i], 0 past the end
ByteAt(data, i) == IF i <= Len(data) THEN data[i] ELSE 0

\* Engine::encode: three bytes to four characters, the last group cut to
\* the characters that hold data, nothing appended
encode_base64(data) ==
  LET n == Len(data)
      outLen == 4 * (n \div 3) + (IF n % 3 = 0 THEN 0 ELSE (n % 3) + 1)
  IN  [j \in 1..outLen |->
        LET g == 3 * ((j - 1) \div 4)
            b0 == ByteAt(data, g + 1)
            b1 == ByteAt(data, g + 2)
            b2 == ByteAt(data, g + 3)
        IN  CASE (j - 1) % 4 = 0 -> B64Char(b0 \div 4)
              [] (j - 1) % 4 = 1 -> B64Char((b0 % 4) * 16 + b1 \div 16)
              [] (j - 1) % 4 = 2 -> B64Char((b1 % 16) * 4 + b2 \div 64)
              [] (j - 1) % 4 = 3 -> B64Char(b2 % 64)]

\* the bytes of a string of alphabet characters: four characters to three
\* bytes, a last group of two or three to one or two
B64Bytes(s) ==
  LET n == Len(s)
      outLen == 3 * (n \div 4) + (IF n % 4 = 0 THEN 0 ELSE (n % 4) - 1)
  IN  [j \in 1..outLen |->
        LET g == 4 * ((j - 1) \div 3)
            v0 == B64Value(ByteAt(s, g + 1))
            v1 == B64Value(ByteAt(s, g + 2))
            v2 == IF g + 3 <= n THEN B64Value(s[g + 3]) ELSE 0
            v3 == IF g + 4 <= n THEN B64Value(s[g + 4]) ELSE 0
        IN  CASE (j - 1) % 3 = 0 -> v0 * 4 + v1 \div 16
              [] (j - 1) % 3 = 1 -> (v1 % 16) * 16 + v2 \div 4
              [] (j - 1) % 3 = 2 -> (v2 % 4) * 64 + v3]

Ok(v) == [ok |-> TRUE, v |-> v]
Err(e) == [ok |-> FALSE, err |-> e]

\* Engine::decode: every character in the alphabet (so no '='), no length
\* of 1 mod 4, and no set bit in the unused low bits of the last character
decode_base64(s) ==
  LET n == Len(s) IN
  IF \E i \in 1..n : B64Value(s[i]) < 0 THEN Err("InvalidEncoding")
  ELSE IF n % 4 = 1 THEN Err("InvalidEncoding")
  ELSE IF n % 4 = 2 /\ B64Value(s[n]) % 16 # 0 THEN Err("InvalidEncoding")
  ELSE IF n % 4 = 3 /\ B64Value(s[n]) % 4 # 0 THEN Err("InvalidEncoding")
  ELSE Ok(B64Bytes(s))

-----------------------------------------------------------------------------
(* UTF-8 (String::from_utf8).                                              *)

IsCont(buf, j) == j >= 1 /\ j <= Len(buf) /\ buf[j] >= 128 /\ buf[j] <= 191

InRange(buf, j, lo, hi) == j <= Len(buf) /\ buf[j] >= lo /\ buf[j] <= hi

\* the length of the sequence a byte leads, 0 for a byte that leads none
Utf8Width(c) ==
  IF c < 128 THEN 1
  ELSE IF c >= 194 /\ c <= 223 THEN 2
  ELSE IF c >= 224 /\ c <= 239 THEN 3
  ELSE IF c >= 240 /\ c <= 244 THEN 4
  ELSE 0

\* the lead byte at i is followed by its continuation bytes, the first of
\* them in the range that shuts out overlong forms, surrogates and code
\* points past U+10FFFF
WellLed(buf, i) ==
  LET c == buf[i]
      w == Utf8Width(c)
  IN  /\ w >= 2
      /\ \A k \in 1..(w - 1) : IsCont(buf, i + k)
      /\ c = 224 => InRange(buf, i + 1, 160, 191)
      /\ c = 237 => InRange(buf, i + 1, 128, 159)
      /\ c = 240 => InRange(buf, i + 1, 144, 191)
      /\ c = 244 => InRange(buf, i + 1, 128, 143)

\* every cell is an ASCII byte (or a run of one), a lead byte that is well
\* led, or a continuation byte of the lead byte before it
ValidUtf8(buf) ==
  \A i \in 1..Len(buf) :
    LET c == buf[i] IN
    IF IsRun(c) THEN RunByte(c) < 128
    ELSE IF c < 128 THEN TRUE
    ELSE IF c >= 128 /\ c <= 191 THEN
      \E k \in 1..3 : i - k >= 1 /\ ~IsRun(buf[i - k])
                          /\ Utf8Width(buf[i - k]) > k /\ WellLed(buf, i - k)
    ELSE WellLed(buf, i)

from_utf8(bytes) == IF ValidUtf8(bytes) THEN Ok(bytes) ELSE Err("InvalidUtf8")

-----------------------------------------------------------------------------
(* serde_json::Value.  An object is a function from its keys to its values *)
(* (a map: equality does not depend on the order of the entries); a number *)
(* is an integer, or, for a float or an integer of more than 9 digits, the *)
(* lexeme it was read from (such a number is read, never written: the      *)
(* documents given to encode hold integers).                               *)

JNull == [t |-> "null"]
JBool(b) == [t |-> "bool", b |-> b]
JNum(n) == [t |-> "num", n |-> n]
JNumLex(lex) == [t |-> "numlex", lex |-> lex]
JStr(s) == [t |-> "str", s |-> s]
JArr(a) == [t |-> "arr", a |-> a]
JObj(m) == [t |-> "obj", m |-> m]

EmptyMap == [k \in {} |-> JNull]

\* Map::insert: a later entry replaces an earlier one of the same key
MapInsert(m, key, v) == [k \in (DOMAIN m) \cup {key} |-> IF k = key THEN v ELSE m[k]]

\* the order of String: bytewise lexicographic
LexLess(a, b) ==
  LET First(diff) ==
        IF diff = {} THEN Len(a) < Len(b) ELSE a[Min(diff)] < b[Min(diff)]
  IN  First({ i \in 1..Min({ Len(a), Len(b) }) : a[i] # b[i] })

MinKey(S) == CHOOSE k \in S : \A j \in S : j = k \/ LexLess(k, j)

RECURSIVE SortedKeys(_)
SortedKeys(S) ==
  LET Rest(k) == << k >> \o SortedKeys(S \ {k})
  IN  IF S = {} THEN << >> ELSE Rest(MinKey(S))

-----------------------------------------------------------------------------
(* serde_json::to_string_pretty: PrettyFormatter, two spaces per level.    *)

Indent(level) == [i \in 1..(2 * level) |-> 32]

RECURSIVE Digits(_)
Digits(n) == IF n < 10 THEN << 48 + n >> ELSE Digits(n \div 10) \o << 48 + (n % 10) >>

Itoa(n) == IF n < 0 THEN << 45 >> \o Digits(0 - n) ELSE Digits(n)

HexDigit(d) == IF d < 10 THEN 48 + d ELSE 97 + (d - 10)

EscapeCell(c) ==
  IF c = 34 THEN << 92, 34 >>
  ELSE IF c = 92 THEN << 92, 92 >>
  ELSE IF c = 8 THEN << 92, 98 >>
  ELSE IF c = 9 THEN << 92, 116 >>
  ELSE IF c = 10 THEN << 92, 110 >>
  ELSE IF c = 12 THEN << 92, 102 >>
  ELSE IF c = 13 THEN << 92, 114 >>
  ELSE IF c < 32 THEN << 92, 117, 48, 48, HexDigit(c \div 16), HexDigit(c % 16) >>
  ELSE << c >>

\* format_escaped_str
Quoted(s) == << 34 >> \o Concat([i \in 1..Len(s) |-> EscapeCell(s[i])]) \o << 34 >>

RECURSIVE Pretty(_, _)
Pretty(v, level) ==
  LET Members(keys) ==
        << 123 >>
        \o Concat([i \in 1..Len(keys) |->
              (IF i = 1 THEN << 10 >> ELSE << 44, 10 >>) \o Indent(level + 1)
              \o Quoted(keys[i]) \o << 58, 32 >>
              \o Pretty(v.m[keys[i]], level + 1)])
        \o << 10 >> \o Indent(level) \o << 125 >>
  IN
  CASE v.t = "null" -> << 110, 117, 108, 108 >>
    [] v.t = "bool" -> IF v.b THEN << 116, 114, 117, 101 >> ELSE << 102, 97, 108, 115, 101 >>
    [] v.t = "num" -> Itoa(v.n)
    [] v.t = "str" -> Quoted(v.s)
    [] v.t = "arr" ->
         IF Len(v.a) = 0 THEN << 91, 93 >>
         ELSE << 91 >>
              \o Concat([i \in 1..Len(v.a) |->
                    (IF i = 1 THEN << 10 >> ELSE << 44, 10 >>) \o Indent(level + 1)
                    \o Pretty(v.a[i], level + 1)])
              \o << 10 >> \o Indent(level) \o << 93 >>
    [] v.t = "obj" ->
         IF DOMAIN v.m = {} THEN << 123, 125 >> ELSE Members(SortedKeys(DOMAIN v.m))

to_string_pretty(v) == Ok(Pretty(v, 0))

-----------------------------------------------------------------------------
(* serde_json::from_str::<Value>: a recursive-descent parser.  A parse     *)
(* step returns [ok, v, i]: the value read and the index after it.         *)

PFail(i) == [ok |-> FALSE, v |-> JNull, i |-> i]
POk(v, i) == [ok |-> TRUE, v |-> v, i |-> i]

IsWs(c) == RunByte(c) \in {32, 10, 13, 9}
IsDigit(c) == c >= 48 /\ c <= 57

\* the first index from i that holds no whitespace
SkipWs(s, i) ==
  IF i > Len(s) THEN i
  ELSE Min({ j \in i..(Len(s) + 1) : j = Len(s) + 1 \/ ~IsWs(s[j]) })

\* the first index from i that holds no digit
SkipDigits(s, i) ==
  IF i > Len(s) THEN i
  ELSE Min({ j \in i..(Len(s) + 1) : j = Len(s) + 1 \/ ~IsDigit(s[j]) })

At(s, i, c) == i <= Len(s) /\ s[i] = c

MatchAt(s, i, word) ==
  i + Len(word) - 1 <= Len(s) /\ SubSeq(s, i, i + Len(word) - 1) = word

RECURSIVE DigitsValue(_, _, _, _)
DigitsValue(s, i, j, acc) ==
  IF i >= j THEN acc ELSE DigitsValue(s, i + 1, j, acc * 10 + (s[i] - 48))

\* the end of a number's exponent from its 'e' at i, 0 when malformed
ExponentEnd(s, i) ==
  LET End(expFrom, expEnd) == IF expEnd = expFrom THEN 0 ELSE expEnd
      From(expFrom) == End(expFrom, SkipDigits(s, expFrom))
  IN  From(IF At(s, i + 1, 43) \/ At(s, i + 1, 45) THEN i + 2 ELSE i + 1)

\* the end of a number's fraction and exponent from i, 0 when malformed
NumberTail(s, i) ==
  LET Fraction(fracEnd) ==
        IF At(s, i, 46) /\ fracEnd = i + 1 THEN 0
        ELSE IF At(s, fracEnd, 101) \/ At(s, fracEnd, 69) THEN ExponentEnd(s, fracEnd)
        ELSE fracEnd
  IN  Fraction(IF At(s, i, 46) THEN SkipDigits(s, i + 1) ELSE i)

ParseNumber(s, i) ==
  LET neg == At(s, i, 45)
      j == IF At(s, i, 45) THEN i + 1 ELSE i
      Number(intEnd, tail) ==
        IF intEnd = j THEN PFail(j)
        ELSE IF At(s, j, 48) /\ intEnd <= Len(s) /\ IsDigit(s[intEnd]) THEN PFail(intEnd)
        ELSE IF tail = 0 THEN PFail(intEnd)
        ELSE IF tail > intEnd \/ intEnd - j > 9 \/ (neg /\ At(s, j, 48))
          THEN POk(JNumLex(SubSeq(s, i, tail - 1)), tail)
        ELSE IF neg THEN POk(JNum(0 - DigitsValue(s, j, intEnd, 0)), intEnd)
        ELSE POk(JNum(DigitsValue(s, j, intEnd, 0)), intEnd)
      Integer(intEnd) == Number(intEnd, NumberTail(s, intEnd))
  IN  Integer(IF At(s, j, 48) THEN j + 1 ELSE SkipDigits(s, j))

HexValue(c) ==
  IF c >= 48 /\ c <= 57 THEN c - 48
  ELSE IF c >= 97 /\ c <= 102 THEN c - 97 + 10
  ELSE IF c >= 65 /\ c <= 70 THEN c - 65 + 10
  ELSE -1

\* the code unit of the four hex digits at i, -1 when they are not four
Hex4(s, i) ==
  IF i + 3 > Len(s) THEN -1
  ELSE IF \E k \in 0..3 : IsRun(s[i + k]) \/ HexValue(s[i + k]) < 0 THEN -1
  ELSE LET h == [k \in 0..3 |-> HexValue(s[i + k])]
       IN  ((h[0] * 16 + h[1]) * 16 + h[2]) * 16 + h[3]

\* char::encode_utf8
Utf8Encode(cp) ==
  IF cp < 128 THEN << cp >>
  ELSE IF cp < 2048 THEN << 192 + cp \div 64, 128 + (cp % 64) >>
  ELSE IF cp < 65536 THEN
    << 224 + cp \div 4096, 128 + ((cp \div 64) % 64), 128 + (cp % 64) >>
  ELSE << 240 + cp \div 262144, 128 + ((cp \div 4096) % 64),
          128 + ((cp \div 64) % 64), 128 + (cp % 64) >>

\* the \uXXXX escape whose hex digits start at i: a lone low surrogate
\* fails, a high surrogate needs its low surrogate in a second escape
ParseUnicodeEscape(s, i) ==
  LET Pair(u, w) ==
        IF w >= 56320 /\ w <= 57343
        THEN POk(Utf8Encode(65536 + (u - 55296) * 1024 + (w - 56320)), i + 10)
        ELSE PFail(i - 1)
      Unit(u) ==
        IF u < 0 THEN PFail(i - 1)
        ELSE IF u >= 56320 /\ u <= 57343 THEN PFail(i - 1)
        ELSE IF u >= 55296 /\ u <= 56319 THEN
          IF At(s, i + 4, 92) /\ At(s, i + 5, 117) THEN Pair(u, Hex4(s, i + 6))
          ELSE PFail(i - 1)
        ELSE POk(Utf8Encode(u), i + 4)
  IN  Unit(Hex4(s, i))

\* the escape after a backslash at i - 1: [ok, v: the bytes, i: the index after]
ParseEscape(s, i) ==
  IF i > Len(s) THEN PFail(i)
  ELSE LET e == s[i] IN
    IF e = 34 THEN POk(<< 34 >>, i + 1)
    ELSE IF e = 92 THEN POk(<< 92 >>, i + 1)
    ELSE IF e = 47 THEN POk(<< 47 >>, i + 1)
    ELSE IF e = 98 THEN POk(<< 8 >>, i + 1)
    ELSE IF e = 102 THEN POk(<< 12 >>, i + 1)
    ELSE IF e = 110 THEN POk(<< 10 >>, i + 1)
    ELSE IF e = 114 THEN POk(<< 13 >>, i + 1)
    ELSE IF e = 116 THEN POk(<< 9 >>, i + 1)
    ELSE IF e = 117 THEN ParseUnicodeEscape(s, i + 1)
    ELSE PFail(i)

\* a cell that ends a stretch of plain string content: a quote, a
\* backslash, a control character
EndsChunk(c) == RunByte(c) = 34 \/ RunByte(c) = 92 \/ RunByte(c) < 32

\* the end of the stretch of plain string content from i
ChunkEnd(s, i) == Min({ j \in i..(Len(s) + 1) : j = Len(s) + 1 \/ EndsChunk(s[j]) })

\* the rest of a string literal from i (after the opening quote), one
\* stretch of plain content at a time
RECURSIVE ParseStringFrom(_, _, _)
ParseStringFrom(s, i, acc) ==
  LET Escaped(stop, text, e) ==
        IF e.ok THEN ParseStringFrom(s, e.i, text \o e.v) ELSE PFail(stop)
      Chunk(stop) ==
        IF stop > Len(s) THEN PFail(stop)
        ELSE IF s[stop] = 34 THEN POk(acc \o SubSeq(s, i, stop - 1), stop + 1)
        ELSE IF s[stop] = 92
          THEN Escaped(stop, acc \o SubSeq(s, i, stop - 1), ParseEscape(s, stop + 1))
        ELSE PFail(stop)
  IN  IF i > Len(s) THEN PFail(i) ELSE Chunk(ChunkEnd(s, i))

\* serde_json's Deserializer::remaining_depth at the start of a parse
RecursionLimit == 128

RECURSIVE ParseValue(_, _, _)
RECURSIVE ParseArrayFrom(_, _, _, _)
RECURSIVE ParseObjectFrom(_, _, _, _)

\* the elements of an array from i, the next element expected
ParseArrayFrom(s, i, acc, remaining_depth) ==
  LET After(e, k) ==
        IF At(s, k, 44) THEN ParseArrayFrom(s, k + 1, Append(acc, e.v), remaining_depth)
        ELSE IF At(s, k, 93) THEN POk(JArr(Append(acc, e.v)), k + 1)
        ELSE PFail(k)
      Element(e) == IF ~e.ok THEN PFail(e.i) ELSE After(e, SkipWs(s, e.i))
  IN  Element(ParseValue(s, i, remaining_depth))

\* the entries of an object from i, the next key expected
ParseObjectFrom(s, i, acc, remaining_depth) ==
  LET After(m, k) ==
        IF At(s, k, 44) THEN ParseObjectFrom(s, k + 1, m, remaining_depth)
        ELSE IF At(s, k, 125) THEN POk(JObj(m), k + 1)
        ELSE PFail(k)
      Entry(key, e) ==
        IF ~e.ok THEN PFail(e.i)
        ELSE After(MapInsert(acc, key.v, e.v), SkipWs(s, e.i))
      Colon(key, c) ==
        IF ~At(s, c, 58) THEN PFail(c)
        ELSE Entry(key, ParseValue(s, c + 1, remaining_depth))
      Key(key) == IF ~key.ok THEN PFail(key.i) ELSE Colon(key, SkipWs(s, key.i))
      Start(q) ==
        IF ~At(s, q, 34) THEN PFail(q) ELSE Key(ParseStringFrom(s, q + 1, << >>))
  IN  Start(SkipWs(s, i))

\* one value from i; an array or an object takes one from remaining_depth
\* and fails when that leaves none (RecursionLimitExceeded)
ParseValue(s, i, remaining_depth) ==
  LET Str(r) == IF r.ok THEN POk(JStr(r.v), r.i) ELSE PFail(r.i)
      Arr(q) ==
        IF At(s, q, 93) THEN POk(JArr(<< >>), q + 1)
        ELSE ParseArrayFrom(s, q, << >>, remaining_depth - 1)
      Obj(q) ==
        IF At(s, q, 125) THEN POk(JObj(EmptyMap), q + 1)
        ELSE ParseObjectFrom(s, q, EmptyMap, remaining_depth - 1)
      Word(p, word, v) ==
        IF MatchAt(s, p, word) THEN POk(v, p + Len(word)) ELSE PFail(p)
      Value(p) ==
        IF p > Len(s) THEN PFail(p)
        ELSE LET c == s[p] IN
          IF c = 110 THEN Word(p, << 110, 117, 108, 108 >>, JNull)
          ELSE IF c = 116 THEN Word(p, << 116, 114, 117, 101 >>, JBool(TRUE))
          ELSE IF c = 102 THEN Word(p, << 102, 97, 108, 115, 101 >>, JBool(FALSE))
          ELSE IF c = 45 \/ IsDigit(c) THEN ParseNumber(s, p)
          ELSE IF c = 34 THEN Str(ParseStringFrom(s, p + 1, << >>))
          ELSE IF c = 91 \/ c = 123 THEN
            IF remaining_depth - 1 = 0 THEN PFail(p)
            ELSE IF c = 91 THEN Arr(SkipWs(s, p + 1))
            ELSE Obj(SkipWs(s, p + 1))
          ELSE PFail(p)
  IN  Value(SkipWs(s, i))

\* from_str: one value, then nothing but whitespace
from_str(s) ==
  LET End(r) ==
        IF ~r.ok THEN Err("InvalidDocument")
        ELSE IF SkipWs(s, r.i) <= Len(s) THEN Err("InvalidDocument")
        ELSE Ok(r.v)
  IN  End(ParseValue(s, 1, RecursionLimit))

-----------------------------------------------------------------------------
(* zlib (flate2::write::ZlibEncoder, flate2::read::ZlibDecoder).           *)
(* The stream is RFC 1950: the two header bytes CMF FLG, the DEFLATE data, *)
(* the Adler-32 of the uncompressed bytes, big-endian.  The DEFLATE data   *)
(* is modelled by its contract, lossless and self-delimiting, not bit for  *)
(* bit: plain bytes travel in stored blocks (RFC 1951, BTYPE 00), and a    *)
(* run cell travels in a block of the reserved BTYPE 11 that stands for a  *)
(* Huffman-coded block of the same content.  The decoder rejects what is   *)
(* not such a stream, and reads nothing past the end of the stream.        *)

\* x * y mod 65521 for x, y < 65521, without leaving 32 bits
MulMod(x, y) == (((x * (y \div 256)) % 65521) * 256 + x * (y % 256)) % 65521

\* the number of bytes of a cell, mod 65521 (2^32 mod 65521 = 225)
CellCountMod(c) == IF IsRun(c) THEN (221 + (c \div 256)) % 65521 ELSE 1

\* what the bytes of one cell add to the checksum: over n bytes of value
\* v, a grows by n v and b by n a + v n (n + 1) / 2 (32761 is 1/2 mod 65521)
AdlerCell(c) ==
  LET n == CellCountMod(c)
      v == RunByte(c)
      tri == MulMod(MulMod(n, (n + 1) % 65521), 32761)
  IN  [n |-> n, a |-> MulMod(n, v), b |-> MulMod(v, tri)]

\* two stretches of bytes, one after the other
AdlerJoin(x, y) ==
  [n |-> (x.n + y.n) % 65521,
   a |-> (x.a + y.a) % 65521,
   b |-> (x.b + MulMod(y.n, x.a) + y.b) % 65521]

\* what data[lo..hi] adds to the checksum, halving the range
RECURSIVE AdlerRange(_, _, _)
AdlerRange(data, lo, hi) ==
  IF lo > hi THEN [n |-> 0, a |-> 0, b |-> 0]
  ELSE IF lo = hi THEN AdlerCell(data[lo])
  ELSE LET mid == (lo + hi) \div 2
       IN  AdlerJoin(AdlerRange(data, lo, mid), AdlerRange(data, mid + 1, hi))

\* the four bytes of the Adler-32 of data (a starts at 1, b at 0), most
\* significant first
Adler32(data) ==
  LET Bytes(a, b) == << b \div 256, b % 256, a \div 256, a % 256 >>
      Sums(s) == Bytes((1 + s.a) % 65521, (s.n + s.b) % 65521)
  IN  Sums(AdlerRange(data, 1, Len(data)))

\* the end of the plain bytes from i (one stored block holds at most 65535)
PlainEnd(data, i) ==
  Min({ j \in i..(Len(data) + 1) :
          j = Len(data) + 1 \/ IsRun(data[j]) \/ j - i = 65535 })

RECURSIVE DeflateFrom(_, _)
DeflateFrom(data, i) ==
  LET Stored(j, n) ==
        << 0, n % 256, n \div 256, 255 - (n % 256), 255 - (n \div 256) >>
        \o SubSeq(data, i, j - 1) \o DeflateFrom(data, j)
      Plain(j) == Stored(j, j - i)
  IN  IF i > Len(data) THEN << 1, 0, 0, 255, 255 >>
      ELSE IF IsRun(data[i]) THEN
        << 6, RunByte(data[i]), data[i] \div 256 >> \o DeflateFrom(data, i + 1)
      ELSE Plain(PlainEnd(data, i))

\* compress_data: CMF FLG of the default level, the blocks, the checksum
compress_data(data) == Ok(<< 120, 156 >> \o DeflateFrom(data, 1) \o Adler32(data))

\* the blocks from i: [ok, v: the bytes so far, i: the index after the last block]
RECURSIVE InflateFrom(_, _, _)
InflateFrom(data, i, acc) ==
  LET Block(final, out, next) ==
        IF final THEN POk(out, next) ELSE InflateFrom(data, next, out)
      Stored(final, n, nn) ==
        IF n + nn # 65535 \/ i + 4 + n > Len(data) THEN PFail(i)
        ELSE Block(final, acc \o SubSeq(data, i + 5, i + 4 + n), i + 5 + n)
      Typed(final, btype) ==
        IF btype = 0 THEN
          IF i + 4 > Len(data) THEN PFail(i)
          ELSE Stored(final, data[i + 1] + 256 * data[i + 2],
                      data[i + 3] + 256 * data[i + 4])
        ELSE IF btype = 3 THEN
          IF i + 2 > Len(data) \/ data[i + 2] = 0 THEN PFail(i)
          ELSE Block(final, Append(acc, Run(data[i + 1], data[i + 2])), i + 3)
        ELSE PFail(i)
  IN  IF i > Len(data) THEN PFail(i)
      ELSE Typed(data[i] % 2 = 1, (data[i] \div 2) % 4)

\* the CMF FLG check of RFC 1950: deflate, a window of at most 32K, the
\* check bits, no preset dictionary
ZlibHeaderOk(data) ==
  /\ Len(data) >= 2
  /\ data[1] % 16 = 8
  /\ data[1] \div 16 <= 7
  /\ (data[1] * 256 + data[2]) % 31 = 0
  /\ (data[2] \div 32) % 2 = 0

\* decompress_data
decompress_data(data) ==
  LET Checked(r) ==
        IF ~r.ok THEN Err("DecompressionError")
        ELSE IF r.i + 3 > Len(data) THEN Err("DecompressionError")
        ELSE IF SubSeq(data, r.i, r.i + 3) # Adler32(r.v) THEN Err("DecompressionError")
        ELSE Ok(r.v)
  IN  IF ~ZlibHeaderOk(data) THEN Err("DecompressionError")
      ELSE Checked(InflateFrom(data, 3, << >>))

-----------------------------------------------------------------------------
(* The two decode paths.                                                   *)

HeaderLen == 4

\* what a path hands back: its Result and the steps it went through
Path(result, steps) == [result |-> result, steps |-> steps]

\* try_decode_compressed without its length guard: the header is read from
\* whatever is there
try_decode_compressed_unguarded(data) ==
  LET Parsed(json_string) ==
        IF ~json_string.ok
          THEN Path(Err("InvalidUtf8"),
                    << "read_header", "decompress", "check_len", "from_utf8" >>)
        ELSE Path(from_str(json_string.v),
                  << "read_header", "decompress", "check_len", "from_utf8", "from_str" >>)
      Checked(expected_len, decompressed) ==
        IF ~decompressed.ok
          THEN Path(Err("DecompressionError"), << "read_header", "decompress" >>)
        ELSE IF len(decompressed.v) # expected_len
          THEN Path(Err("IntegrityMismatch"), << "read_header", "decompress", "check_len" >>)
        ELSE Parsed(from_utf8(decompressed.v))
  IN  Checked(as_usize(read_header(SubSeq(data \o << 0, 0, 0, 0 >>, 1, HeaderLen))),
              decompress_data(SubSeq(data, HeaderLen + 1, Len(data))))

\* try_decode_compressed without its integrity check
try_decode_compressed_unchecked(data) ==
  LET Parsed(json_string) ==
        IF ~json_string.ok
          THEN Path(Err("InvalidUtf8"), << "read_header", "decompress", "from_utf8" >>)
        ELSE Path(from_str(json_string.v),
                  << "read_header", "decompress", "from_utf8", "from_str" >>)
      Unchecked(decompressed) ==
        IF ~decompressed.ok
          THEN Path(Err("DecompressionError"), << "read_header", "decompress" >>)
        ELSE Parsed(from_utf8(decompressed.v))
  IN  IF Len(data) < HeaderLen THEN Path(Err("TruncatedHeader"), << >>)
      ELSE Unchecked(decompress_data(SubSeq(data, HeaderLen + 1, Len(data))))

\* try_decode_compressed
try_decode_compressed(data) ==
  LET Parsed(json_string) ==
        IF ~json_string.ok
          THEN Path(Err("InvalidUtf8"),
                    << "read_header", "decompress", "check_len", "from_utf8" >>)
        ELSE Path(from_str(json_string.v),
                  << "read_header", "decompress", "check_len", "from_utf8", "from_str" >>)
      Checked(expected_len, decompressed) ==
        IF ~decompressed.ok
          THEN Path(Err("DecompressionError"), << "read_header", "decompress" >>)
        ELSE IF len(decompressed.v) # expected_len
          THEN Path(Err("IntegrityMismatch"), << "read_header", "decompress", "check_len" >>)
        ELSE Parsed(from_utf8(decompressed.v))
  IN  IF Len(data) < HeaderLen THEN Path(Err("TruncatedHeader"), << >>)
      ELSE Checked(as_usize(read_header(SubSeq(data, 1, HeaderLen))),
                   decompress_data(SubSeq(data, HeaderLen + 1, Len(data))))

\* try_decode_plain that takes the buffer for one with a header
try_decode_plain_after_header(data) ==
  LET Parsed(json_string) ==
        IF ~json_string.ok THEN Path(Err("InvalidUtf8"), << "from_utf8" >>)
        ELSE Path(from_str(json_string.v), << "from_utf8", "from_str" >>)
  IN  Parsed(from_utf8(SubSeq(data, HeaderLen + 1, Len(data))))

\* try_decode_plain
try_decode_plain(data) ==
  LET Parsed(json_string) ==
        IF ~json_string.ok THEN Path(Err("InvalidUtf8"), << "from_utf8" >>)
        ELSE Path(from_str(json_string.v), << "from_utf8", "from_str" >>)
  IN  Parsed(from_utf8(data))

-----------------------------------------------------------------------------
(* detect_input_type.                                                      *)

\* "vpn://"
PREFIX == << 118, 112, 110, 58, 47, 47 >>

starts_with(s, p) == Len(s) >= Len(p) /\ SubSeq(s, 1, Len(p)) = p

ends_with(s, p) == Len(s) >= Len(p) /\ SubSeq(s, Len(s) - Len(p) + 1, Len(s)) = p

\* the UTF-8 of the characters with the Unicode property White_Space
WhiteSpace ==
  { << c >> : c \in {9, 10, 11, 12, 13, 32} }
    \cup { << 194, 133 >>, << 194, 160 >>, << 225, 154, 128 >>,
           << 226, 129, 159 >>, << 227, 128, 128 >> }
    \cup { << 226, 128, c >> : c \in (128..138) \cup {168, 169, 175} }

RECURSIVE trim_start(_)
trim_start(s) ==
  IF \E w \in WhiteSpace : starts_with(s, w)
  THEN LET w == CHOOSE w \in WhiteSpace : starts_with(s, w)
       IN  trim_start(SubSeq(s, Len(w) + 1, Len(s)))
  ELSE s

RECURSIVE trim_end(_)
trim_end(s) ==
  IF \E w \in WhiteSpace : ends_with(s, w)
  THEN LET w == CHOOSE w \in WhiteSpace : ends_with(s, w)
       IN  trim_end(SubSeq(s, 1, Len(s) - Len(w)))
  ELSE s

\* str::trim
trim(s) == trim_end(trim_start(s))

\* without the bracket shortcut's closing test
detect_input_type_open_only(input) ==
  LET Classify(trimmed) ==
        IF starts_with(trimmed, PREFIX) THEN "VpnUrl"
        ELSE IF starts_with(trimmed, << 123 >>) \/ starts_with(trimmed, << 91 >>)
          THEN "Json"
        ELSE IF from_str(trimmed).ok THEN "Json"
        ELSE "Unknown"
  IN  Classify(trim(input))

detect_input_type(input) ==
  LET Classify(trimmed) ==
        IF starts_with(trimmed, PREFIX) THEN "VpnUrl"
        ELSE IF (starts_with(trimmed, << 123 >>) /\ ends_with(trimmed, << 125 >>))
                \/ (starts_with(trimmed, << 91 >>) /\ ends_with(trimmed, << 93 >>))
          THEN "Json"
        ELSE IF from_str(trimmed).ok THEN "Json"
        ELSE "Unknown"
  IN  Classify(trim(input))

-----------------------------------------------------------------------------
(* The inputs: documents, tokens, detector inputs, header values.          *)

\* {"server":"example.com","port":8080,"protocol":"wireguard",
\*  "key":"test_key_12345"}, the document of test_encode_decode
TestConfig ==
  JObj(MapInsert(MapInsert(MapInsert(MapInsert(EmptyMap,
    << 115, 101, 114, 118, 101, 114 >>,
      JStr(<< 101, 120, 97, 109, 112, 108, 101, 46, 99, 111, 109 >>)),
    << 112, 111, 114, 116 >>, JNum(8080)),
    << 112, 114, 111, 116, 111, 99, 111, 108 >>,
      JStr(<< 119, 105, 114, 101, 103, 117, 97, 114, 100 >>)),
    << 107, 101, 121 >>,
      JStr(<< 116, 101, 115, 116, 95, 107, 101, 121, 95, 49, 50, 51, 52, 53 >>)))

\* strings: empty, a, e-acute, a quote, a backslash, a line feed, U+0001,
\* a slash, ab, and the runs of a
StrPool ==
  { << >>, << 97 >>, << 195, 169 >>, << 34 >>, << 92 >>, << 10 >>, << 1 >>,
    << 47 >>, << 97, 98 >> }
    \cup { << Run(97, k) >> : k \in 1..MaxRun }

NumPool == { 0, 7, -3, 10, 8080, 123456789 }

Scalars ==
  { JNull, JBool(TRUE), JBool(FALSE) }
    \cup { JNum(n) : n \in NumPool } \cup { JStr(s) : s \in StrPool }

ElemPool == { JNull, JNum(7), JStr(<< 97 >>), JBool(TRUE) }

KeyPool == { << 97 >>, << 98 >>, << 195, 169 >>, << 34 >> }

Arrays == UNION { { JArr(a) : a \in [1..n -> ElemPool] } : n \in 0..MaxElems }

Objects ==
  UNION { { JObj(m) : m \in [K -> { JNull, JNum(7) }] } :
          K \in { K \in SUBSET KeyPool : Cardinality(K) <= MaxElems } }

\* x inside d containers, arrays and objects in turn
RECURSIVE Nest(_, _)
Nest(x, d) ==
  IF d = 0 THEN x
  ELSE IF d % 2 = 1 THEN JArr(<< JNum(0), Nest(x, d - 1) >>)
  ELSE JObj(MapInsert(EmptyMap, << 97 >>, Nest(x, d - 1)))

Nested ==
  { Nest(x, d) : x \in { JNum(7), JArr(<< >>), JObj(EmptyMap), JStr(<< Run(97, 2) >>) },
                 d \in 1..MaxDepth }

Docs == Scalars \cup Arrays \cup Objects \cup Nested \cup { TestConfig }

\* the body encode builds for a document: header, then the zlib stream
ModernBody(d) ==
  LET Body(text) == create_header(as_u32(len(text))) \o compress_data(text).v
  IN  Body(Pretty(d, 0))

SmallDocs ==
  { JNull, JNum(7), JNum(1234), JStr(<< 97 >>), JArr(<< >>), JArr(<< JNum(7), JNull >>),
    JObj(EmptyMap), JObj(MapInsert(EmptyMap, << 97 >>, JNum(7))),
    Nest(JNum(7), 2), JStr(<< Run(97, 2) >>) }

\* a u32 one more, one less (wrapping)
U32Succ(n) ==
  IF n.lo < 65535 THEN [hi |-> n.hi, lo |-> n.lo + 1]
  ELSE [hi |-> (n.hi + 1) % 65536, lo |-> 0]

U32Pred(n) ==
  IF n.lo > 0 THEN [hi |-> n.hi, lo |-> n.lo - 1]
  ELSE [hi |-> (n.hi + 65535) % 65536, lo |-> 65535]

WithHeader(body, n) == create_header(n) \o SubSeq(body, HeaderLen + 1, Len(body))

WithLast(body, b) == SubSeq(body, 1, Len(body) - 1) \o << b >>

\* modern bodies gone wrong: the header off by one, the stream cut short,
\* its checksum changed, bytes after its end, and streams of text that is
\* no UTF-8 or no JSON under a right header
BrokenBodies ==
  UNION { { WithHeader(body, U32Succ(read_header(body))),
            WithHeader(body, U32Pred(read_header(body))),
            SubSeq(body, 1, Len(body) - 1),
            SubSeq(body, 1, HeaderLen + 2),
            SubSeq(body, 1, HeaderLen),
            WithLast(body, (body[Len(body)] + 1) % 256),
            body \o << 0, 255 >> } : body \in { ModernBody(d) : d \in SmallDocs } }
    \cup { create_header(SizeOf(Len(t))) \o compress_data(t).v :
           t \in { << 255 >>, << 97, 98, 99 >>, << 123, 34, 97, 34, 125 >>, << >> } }

\* {"server":"example.com"}
ServerText ==
  << 123, 34, 115, 101, 114, 118, 101, 114, 34, 58, 34, 101, 120, 97, 109, 112, 108,
     101, 46, 99, 111, 109, 34, 125 >>

\* raw JSON text, the body of a legacy token: pretty, compact, padded
LegacyTexts ==
  { Pretty(d, 0) : d \in (SmallDocs \ { JStr(<< Run(97, 2) >>) }) \cup { TestConfig } }
    \cup { ServerText,
           << 91, 55, 44, 110, 117, 108, 108, 93 >>,
           << 32, 10, 123, 34, 97, 34, 58, 55, 125, 10 >>,
           << 123, 34, 97, 34, 58, 49, 44, 34, 97, 34, 58, 50, 125 >>,
           << 34, 92, 117, 48, 48, 101, 57, 34 >>,
           << 34, 195, 169, 34 >>,
           << 45, 49, 46, 53, 101, 51 >>,
           << 116, 114, 117, 101 >> }

\* text that is no JSON document, or no UTF-8
BadTexts ==
  { << 123, 34, 97, 34, 58, 125 >>, << 91, 49, 44, 93 >>, << 48, 49, 50, 51 >>,
    << 110, 117, 108, 108, 32, 120 >>, << 34, 97, 98, 99 >>, << 34, 255, 255, 34 >>,
    << 123, 125, 123, 125 >>, << 34, 10, 34, 32 >> }

ShortBytes == { 49, 34, 123, 125, 255, 32 }

\* every body of at most MaxShort bytes over ShortBytes
ShortBodies == UNION { [1..n -> ShortBytes] : n \in 0..MaxShort }

Bodies == BrokenBodies \cup LegacyTexts \cup BadTexts \cup ShortBodies

\* strings without the prefix: not-a-vpn-url, the empty string, parts of
\* the prefix, the prefix after a space, in capitals, after another
\* character, and a body alone
NoPrefixTokens ==
  { << 110, 111, 116, 45, 97, 45, 118, 112, 110, 45, 117, 114, 108 >>,
    << >>, << 118 >>, << 118, 112, 110, 58, 47 >>,
    << 118, 112, 110, 58, 47, 101, 51, 48 >>,
    << 32 >> \o PREFIX \o << 101, 51, 48 >>,
    << 10 >> \o PREFIX \o encode_base64(ModernBody(JNum(7))),
    << 86, 80, 78, 58, 47, 47, 101, 51, 48 >>,
    << 120 >> \o PREFIX \o << 101, 51, 48 >>,
    << 101, 51, 48 >>,
    encode_base64(ModernBody(JNum(7))),
    encode_base64(ServerText) }

\* the prefix, then what is no unpadded URL-safe base64: padding, + and /,
\* a length of 1 mod 4, set trailing bits, whitespace
BadBase64Tokens ==
  { PREFIX \o b : b \in { << 101, 51, 48, 61 >>, << 101, 119, 61, 61 >>,
                          << 43, 43, 43, 43 >>, << 47, 47, 47, 47 >>, << 101 >>,
                          << 101, 51, 48, 101, 51 >>, << 77, 82 >>, << 77, 84, 70 >>,
                          << 101, 51, 48, 32 >>, << 101, 51, 48, 10 >>,
                          << 32, 101, 51, 48 >> } }

Tokens ==
  { PREFIX \o encode_base64(b) : b \in Bodies } \cup NoPrefixTokens \cup BadBase64Tokens

\* the strings detect_input_type is given, before the padding
DetectCores ==
  { PREFIX \o << 65, 65, 65, 65, 72, 88, 105, 99 >>,
    PREFIX \o << 116, 101, 115, 116, 49, 50, 51 >>,
    PREFIX, PREFIX \o << 123, 125 >>,
    << 123, 34, 107, 101, 121, 34, 58, 32, 34, 118, 97, 108, 117, 101, 34, 125 >>,
    ServerText,
    << 91, 49, 44, 32, 50, 44, 32, 51, 93 >>,
    << 114, 97, 110, 100, 111, 109, 32, 116, 101, 120, 116 >>,
    << >>,
    << 123, 110, 111, 116, 32, 106, 115, 111, 110, 125 >>,
    << 91, 125 >>, << 123, 93 >>, << 123 >>, << 125 >>, << 91, 93, 32, 120 >>,
    << 49, 50, 51 >>, << 34, 115, 116, 114, 34 >>, << 116, 114, 117, 101 >>,
    << 110, 117, 108 >>, << 118, 112, 110, 58, 47 >>,
    << 120, 32 >> \o PREFIX, << 123, 125, 32 >> \o PREFIX }

\* nothing, a space, a line feed and a tab, U+00A0, U+2028
WsPool == { << >>, << 32 >>, << 10, 9 >>, << 194, 160 >>, << 226, 128, 168 >> }

DetectInputs == { p \o c \o q : p \in WsPool, c \in DetectCores, q \in WsPool }

HalfPool == { 0, 1, 255, 256, 12345, 65535 }

\* u32 values, 0 and 12345 and u32::MAX among them
U32Pool == { [hi |-> h, lo |-> l] : h \in HalfPool, l \in HalfPool }

-----------------------------------------------------------------------------
(* The state: the position, and the locals of the call under way.          *)

VARIABLES
  pc,   \* where the program is
  enc,  \* encode: config, json_string, original_data_len, compressed_data,
        \*   header, combined, encoded, result
  dec,  \* decode: vpn_url, encoded_data, decoded, modern, legacy, result
  det,  \* detect_input_type: input, result
  hdr   \* the header helpers: length, header, read_len

vars == << pc, enc, dec, det, hdr >>

NotAttempted == Path(Err("NotAttempted"), << >>)

NoEnc ==
  [config |-> JNull, json_string |-> << >>, original_data_len |-> SizeOf(0),
   compressed_data |-> << >>, header |-> << >>, combined |-> << >>,
   encoded |-> << >>, result |-> Err("NotCalled")]

NoDec ==
  [vpn_url |-> << >>, encoded_data |-> << >>, decoded |-> << >>,
   modern |-> NotAttempted, legacy |-> NotAttempted, result |-> Err("NotCalled")]

NoDet == [input |-> << >>, result |-> "NotCalled"]

NoHdr == [length |-> SizeOf(0), header |-> << >>, read_len |-> SizeOf(0)]

Init ==
  /\ pc = "idle"
  /\ enc = NoEnc
  /\ dec = NoDec
  /\ det = NoDet
  /\ hdr = NoHdr

\* encode: its locals and its result
encode(config) ==
  LET Encoded(json_string, original_data_len, compressed_data, header, combined, encoded) ==
        [config |-> config, json_string |-> json_string,
         original_data_len |-> original_data_len, compressed_data |-> compressed_data,
         header |-> header, combined |-> combined, encoded |-> encoded,
         result |-> Ok(PREFIX \o encoded)]
      Combined(json_string, original_data_len, compressed_data, header, combined) ==
        Encoded(json_string, original_data_len, compressed_data, header, combined,
                encode_base64(combined))
      Headed(json_string, original_data_len, compressed_data, header) ==
        Combined(json_string, original_data_len, compressed_data, header,
                 header \o compressed_data)
      Compressed(json_string, original_data_len, compressed_data) ==
        Headed(json_string, original_data_len, compressed_data,
               create_header(original_data_len))
      Serialized(json_string) ==
        Compressed(json_string, as_u32(len(json_string)), compress_data(json_string).v)
  IN  Serialized(to_string_pretty(config).v)

\* a call of encode
Encode(config) ==
  /\ pc = "idle"
  /\ enc' = encode(config)
  /\ pc' = "encoded"
  /\ UNCHANGED << dec, det, hdr >>

\* a call of decode on a token from outside
Decode(vpn_url) ==
  /\ pc = "idle"
  /\ dec' = [NoDec EXCEPT !.vpn_url = vpn_url]
  /\ pc' = "strip_prefix"
  /\ UNCHANGED << enc, det, hdr >>

\* test_encode_decode: decode called on what encode returned
DecodeEncoded ==
  /\ pc = "encoded"
  /\ enc.result.ok
  /\ dec' = [NoDec EXCEPT !.vpn_url = enc.result.v]
  /\ pc' = "strip_prefix"
  /\ UNCHANGED << enc, det, hdr >>

\* decode that takes a token without the prefix for a body
DecodeStripPrefixLenient ==
  /\ pc = "strip_prefix"
  /\ IF starts_with(dec.vpn_url, PREFIX)
     THEN dec' = [dec EXCEPT !.encoded_data =
                    SubSeq(dec.vpn_url, Len(PREFIX) + 1, Len(dec.vpn_url))]
     ELSE dec' = [dec EXCEPT !.encoded_data = dec.vpn_url]
  /\ pc' = "decode_base64"
  /\ UNCHANGED << enc, det, hdr >>

\* decode: strip_prefix, or the error
DecodeStripPrefix ==
  /\ pc = "strip_prefix"
  /\ IF starts_with(dec.vpn_url, PREFIX)
     THEN /\ dec' = [dec EXCEPT !.encoded_data =
                       SubSeq(dec.vpn_url, Len(PREFIX) + 1, Len(dec.vpn_url))]
          /\ pc' = "decode_base64"
     ELSE /\ dec' = [dec EXCEPT !.result = Err("InvalidScheme")]
          /\ pc' = "returned"
  /\ UNCHANGED << enc, det, hdr >>

\* decode: decode_base64, or the error
DecodeBase64 ==
  /\ pc = "decode_base64"
  /\ \E decoded \in { decode_base64(dec.encoded_data) } :
       IF decoded.ok
       THEN /\ dec' = [dec EXCEPT !.decoded = decoded.v]
            /\ pc' = "try_compressed"
       ELSE /\ dec' = [dec EXCEPT !.result = Err("InvalidEncoding")]
            /\ pc' = "returned"
  /\ UNCHANGED << enc, det, hdr >>

\* decode that hands the modern path's error to the caller
DecodeTryCompressedNoFallback ==
  /\ pc = "try_compressed"
  /\ \E modern \in { try_decode_compressed(dec.decoded) } :
       /\ dec' = [dec EXCEPT !.modern = modern, !.result = modern.result]
       /\ pc' = "returned"
  /\ UNCHANGED << enc, det, hdr >>

\* decode: the match on try_decode_compressed
DecodeTryCompressed ==
  /\ pc = "try_compressed"
  /\ \E modern \in { try_decode_compressed(dec.decoded) } :
       IF modern.result.ok
       THEN /\ dec' = [dec EXCEPT !.modern = modern, !.result = modern.result]
            /\ pc' = "returned"
       ELSE /\ dec' = [dec EXCEPT !.modern = modern]
            /\ pc' = "try_plain"
  /\ UNCHANGED << enc, det, hdr >>

\* decode: the Err arm, try_decode_plain
DecodeTryPlain ==
  /\ pc = "try_plain"
  /\ \E legacy \in { try_decode_plain(dec.decoded) } :
       dec' = [dec EXCEPT !.legacy = legacy, !.result = legacy.result]
  /\ pc' = "returned"
  /\ UNCHANGED << enc, det, hdr >>

\* a call of detect_input_type
DetectInputType(input) ==
  /\ pc = "idle"
  /\ det' = [input |-> input, result |-> detect_input_type(input)]
  /\ pc' = "detected"
  /\ UNCHANGED << enc, dec, hdr >>

\* test_helper_functions: create_header, then read_header of it
HeaderRoundTrip(length) ==
  /\ pc = "idle"
  /\ \E header \in { create_header(length) } :
       hdr' = [length |-> length, header |-> header, read_len |-> read_header(header)]
  /\ pc' = "header_read"
  /\ UNCHANGED << enc, dec, det >>

Next ==
  \/ \E config \in Docs : Encode(config)
  \/ \E vpn_url \in Tokens : Decode(vpn_url)
  \/ DecodeEncoded
  \/ DecodeStripPrefix
  \/ DecodeBase64
  \/ DecodeTryCompressed
  \/ DecodeTryPlain
  \/ \E input \in DetectInputs : DetectInputType(input)
  \/ \E length \in U32Pool : HeaderRoundTrip(length)

Spec == Init /\ [][Next]_vars

-----------------------------------------------------------------------------
(* Properties.                                                             *)

\* decode was called on the token encode returned
DecodedOwnToken == enc.result.ok /\ dec.vpn_url = enc.result.v

\* the body a token carries behind the prefix, base64 taken off
TokenBody(token) == B64Bytes(SubSeq(token, Len(PREFIX) + 1, Len(token)))

\* C1, within the header's range: when the serialized text is at most
\* 2^32 - 1 bytes long, encode succeeds, and decode of its token returns the
\* document encode was given, from the modern path, the legacy path never
\* attempted.
C1_RoundTripWithinU32 ==
  /\ pc = "encoded" => enc.result.ok
  /\ (pc = "returned" /\ DecodedOwnToken /\ ~SizeLess(U32Max, len(enc.json_string)))
       => /\ dec.result = Ok(enc.config)
          /\ dec.modern.result = Ok(enc.config)
          /\ dec.legacy = NotAttempted

\* C1 as stated: for every document, encode succeeds, and decode of its
\* token returns the document encode was given, from the modern path, the
\* legacy path never attempted.
C1_RoundTrip ==
  /\ pc = "encoded" => enc.result.ok
  /\ (pc = "returned" /\ DecodedOwnToken)
       => /\ dec.result = Ok(enc.config)
          /\ dec.modern.result = Ok(enc.config)
          /\ dec.legacy = NotAttempted

\* a document whose text is 2^32 bytes long went through encode and decode,
\* and decode returned an error after both paths failed
C1_LongDocumentLost ==
  /\ pc = "returned" /\ DecodedOwnToken
  /\ len(enc.json_string) = [hi |-> 65536, lo |-> 0]
  /\ dec.modern.result = Err("IntegrityMismatch")
  /\ ~dec.legacy.result.ok
  /\ ~dec.result.ok

\* C2 as stated: encode fails with LengthOverflow when the serialized text
\* is longer than 2^32 - 1 bytes, and the header of a token it returns holds
\* the byte length of the serialized text.
C2_LengthOverflow ==
  pc = "encoded" =>
    /\ SizeLess(U32Max, len(enc.json_string)) => enc.result = Err("LengthOverflow")
    /\ enc.result.ok =>
         as_usize(read_header(SubSeq(TokenBody(enc.result.v), 1, HeaderLen)))
           = len(enc.json_string)

\* C2, what the code does: encode returns a token for every document, and
\* its header holds the byte length of the serialized text modulo 2^32.
C2_HeaderIsLengthModulo ==
  pc = "encoded" =>
    /\ enc.result.ok
    /\ read_header(SubSeq(TokenBody(enc.result.v), 1, HeaderLen))
         = as_u32(len(enc.json_string))

\* encode returned a token for a text of 2^32 + 1 bytes, its header 1
C2_TruncatedLength ==
  /\ pc = "encoded"
  /\ enc.result.ok
  /\ len(enc.json_string) = [hi |-> 65536, lo |-> 1]
  /\ SubSeq(TokenBody(enc.result.v), 1, HeaderLen) = << 0, 0, 0, 1 >>

\* C7 as stated: the token is the prefix, then the unpadded URL-safe base64
\* of H || C, H the four bytes of the big-endian length of the serialized
\* text, C the zlib compression of that text; it starts with the prefix and
\* holds no '='.
C7_WireFormat ==
  pc = "encoded" =>
    /\ enc.result.ok
    /\ enc.json_string = to_string_pretty(enc.config).v
    /\ \E H \in { SubSeq(TokenBody(enc.result.v), 1, HeaderLen) } :
         /\ as_usize(read_header(H)) = len(enc.json_string)
         /\ enc.result.v = PREFIX \o encode_base64(H \o compress_data(enc.json_string).v)
    /\ starts_with(enc.result.v, PREFIX)
    /\ \A i \in 1..Len(enc.result.v) : enc.result.v[i] # 61

\* C7, what the code does: the same, H the four bytes of the length modulo
\* 2^32; and each step works on what the step before it made.
C7_WireFormatModulo ==
  pc = "encoded" =>
    /\ enc.result.ok
    /\ enc.json_string = to_string_pretty(enc.config).v
    /\ enc.compressed_data = compress_data(enc.json_string).v
    /\ enc.header = create_header(as_u32(len(enc.json_string)))
    /\ enc.combined = enc.header \o enc.compressed_data
    /\ enc.encoded = encode_base64(enc.combined)
    /\ enc.result.v = PREFIX \o enc.encoded
    /\ starts_with(enc.result.v, PREFIX)
    /\ \A i \in 1..Len(enc.result.v) : enc.result.v[i] # 61

\* encode returned a token for a text of 2^32 bytes whose H is 0 0 0 0
C7_HeaderNotTheLength ==
  /\ pc = "encoded"
  /\ enc.result.ok
  /\ len(enc.json_string) = [hi |-> 65536, lo |-> 0]
  /\ enc.header = << 0, 0, 0, 0 >>
  /\ TokenBody(enc.result.v) = enc.header \o enc.compressed_data

\* C8: create_header(n) is the four bytes of n, most significant first, and
\* read_header gives n back, for every n of 0 .. 2^32 - 1.
C8_HeaderRoundTrip ==
  pc = "header_read" =>
    /\ Len(hdr.header) = HeaderLen
    /\ \A i \in 1..HeaderLen : hdr.header[i] \in 0..255
    /\ hdr.header[1] * 256 + hdr.header[2] = hdr.length.hi
    /\ hdr.header[3] * 256 + hdr.header[4] = hdr.length.lo
    /\ hdr.read_len = hdr.length

\* 12345, the length of test_helper_functions, went through both helpers
C8_Header12345 ==
  /\ pc = "header_read"
  /\ hdr.length = [hi |-> 0, lo |-> 12345]
  /\ hdr.header = << 0, 0, 48, 57 >>
  /\ hdr.read_len = hdr.length

\* the positions of a call of decode
DecodeStages == { "strip_prefix", "decode_base64", "try_compressed", "try_plain", "returned" }

\* what base64 decoding makes of the token's part behind the prefix
BodyOf(token) == decode_base64(SubSeq(token, Len(PREFIX) + 1, Len(token)))

\* the length the first four bytes of a buffer announce
Announced(data) == as_usize(read_header(SubSeq(data, 1, HeaderLen)))

\* C3: for a token with the prefix and a validly encoded body the modern
\* path is tried first, on the decoded buffer; when it succeeds its document
\* is returned and the legacy path is not tried; when it fails, for any
\* reason, the legacy path is tried on the same whole buffer and its result,
\* not the modern failure, is what decode returns.
C3_FallbackOrdering ==
  /\ pc = "try_compressed" => dec.modern = NotAttempted /\ dec.legacy = NotAttempted
  /\ pc = "try_plain" =>
       /\ dec.modern = try_decode_compressed(dec.decoded)
       /\ ~dec.modern.result.ok
       /\ dec.legacy = NotAttempted
  /\ (pc = "returned" /\ starts_with(dec.vpn_url, PREFIX)) =>
       \A body \in { BodyOf(dec.vpn_url) } :
         body.ok =>
           /\ dec.decoded = body.v
           /\ dec.modern = try_decode_compressed(body.v)
           /\ IF dec.modern.result.ok
              THEN dec.result = dec.modern.result /\ dec.legacy = NotAttempted
              ELSE dec.legacy = try_decode_plain(body.v) /\ dec.result = dec.legacy.result

\* the modern path failed on a body that is no zlib stream, and decode
\* returned the document the legacy path read
C3_FellBackToLegacy ==
  /\ pc = "returned"
  /\ dec.modern.result = Err("DecompressionError")
  /\ dec.legacy.result.ok
  /\ dec.result = dec.legacy.result

\* C4: for a token that does not start with "vpn://" decode returns
\* InvalidScheme, and tries neither base64 decoding nor either path.
C4_InvalidScheme ==
  (pc \in DecodeStages \ { "strip_prefix" } /\ ~starts_with(dec.vpn_url, PREFIX)) =>
    /\ pc = "returned"
    /\ dec.result = Err("InvalidScheme")
    /\ dec.encoded_data = << >>
    /\ dec.decoded = << >>
    /\ dec.modern = NotAttempted
    /\ dec.legacy = NotAttempted

\* decode returned InvalidScheme for "not-a-vpn-url"
C4_NotAVpnUrl ==
  /\ pc = "returned"
  /\ dec.vpn_url = << 110, 111, 116, 45, 97, 45, 118, 112, 110, 45, 117, 114, 108 >>
  /\ dec.result = Err("InvalidScheme")

\* C5: the modern path returns a document only when the header equals the
\* byte length of the decompressed payload; when they differ it fails with
\* IntegrityMismatch, before any UTF-8 check or parse, and decode returns
\* what the legacy path returns.
C5_IntegrityCheck ==
  (pc \in { "try_plain", "returned" } /\ starts_with(dec.vpn_url, PREFIX)
     /\ dec.modern # NotAttempted /\ Len(dec.decoded) >= HeaderLen) =>
    \A decompressed \in
         { decompress_data(SubSeq(dec.decoded, HeaderLen + 1, Len(dec.decoded))) } :
      IF ~decompressed.ok THEN ~dec.modern.result.ok
      ELSE IF len(decompressed.v) = Announced(dec.decoded)
        THEN "check_len" \in { dec.modern.steps[i] : i \in 1..Len(dec.modern.steps) }
      ELSE /\ dec.modern =
                Path(Err("IntegrityMismatch"), << "read_header", "decompress", "check_len" >>)
           /\ pc = "returned" =>
                /\ dec.legacy = try_decode_plain(dec.decoded)
                /\ dec.result = dec.legacy.result

\* a body whose header is one more than the length of its payload was
\* rejected by the modern path, then by the legacy path
C5_HeaderOffByOne ==
  /\ pc = "returned"
  /\ dec.modern.result = Err("IntegrityMismatch")
  /\ \E decompressed \in
          { decompress_data(SubSeq(dec.decoded, HeaderLen + 1, Len(dec.decoded))) } :
       decompressed.ok /\ Announced(dec.decoded) = SizeAdd(len(decompressed.v), SizeOf(1))
  /\ dec.legacy.result = Err("InvalidUtf8")
  /\ dec.result = dec.legacy.result

C9_ShortBodies ==
  /\ (pc = "returned" /\ starts_with(dec.vpn_url, PREFIX)) =>
       \A body \in { BodyOf(dec.vpn_url) } :
         (body.ok /\ Len(body.v) < HeaderLen) =>
           /\ dec.modern = Path(Err("TruncatedHeader"), << >>)
           /\ dec.legacy = try_decode_plain(body.v)
           /\ dec.result = dec.legacy.result
  /\ (pc = "returned" /\ dec.vpn_url = PREFIX) =>
       /\ dec.modern.result = Err("TruncatedHeader")
       /\ dec.legacy.result = Err("InvalidDocument")
       /\ ~dec.result.ok

\* decode("vpn://") returned after both paths failed
C9_EmptyBody ==
  /\ pc = "returned"
  /\ dec.vpn_url = PREFIX
  /\ dec.decoded = << >>
  /\ dec.modern = Path(Err("TruncatedHeader"), << >>)
  /\ dec.legacy.result = Err("InvalidDocument")
  /\ dec.result = Err("InvalidDocument")

\* C10: detect_input_type classifies the input, its surrounding whitespace
\* trimmed, as VpnUrl when it starts with "vpn://", else Json when it is
\* delimited by { } or by [ ], parsed or not, else Json when it parses as a
\* JSON value, else Unknown; "random text" and the empty string are Unknown.
C10_DetectInputType ==
  pc = "detected" =>
    \A trimmed \in { trim(det.input) } :
      /\ \A w \in WhiteSpace : ~starts_with(trimmed, w) /\ ~ends_with(trimmed, w)
      /\ starts_with(trimmed, PREFIX) => det.result = "VpnUrl"
      /\ ~starts_with(trimmed, PREFIX) =>
           IF \/ starts_with(trimmed, << 123 >>) /\ ends_with(trimmed, << 125 >>)
              \/ starts_with(trimmed, << 91 >>) /\ ends_with(trimmed, << 93 >>)
           THEN det.result = "Json"
           ELSE det.result = (IF from_str(trimmed).ok THEN "Json" ELSE "Unknown")
      /\ trimmed = << >> => det.result = "Unknown"
      /\ trimmed = << 114, 97, 110, 100, 111, 109, 32, 116, 101, 120, 116 >>
           => det.result = "Unknown"

\* {not json}, between whitespace, was classified Json without a parse
C10_BracketsUnparsed ==
  /\ pc = "detected"
  /\ det.input # trim(det.input)
  /\ trim(det.input) = << 123, 110, 111, 116, 32, 106, 115, 111, 110, 125 >>
  /\ det.result = "Json"

=============================================================================
